---- MODULE Spec2Model ----
(***************************************************************************)
(* Robotiq2F140Pybullet (src/src/airobot/ee_tool/robotiq2f140_pybullet.py) *)
(* as a state machine: the controller object, the foreground caller, the   *)
(* daemon thread _th_mimic_gripper and the pybullet client it talks to.    *)
(*                                                                         *)
(* Joint positions are integers (one unit is one step of the joint); the   *)
(* mimic coefficients are +1/-1, so products are exact as they are for     *)
(* floats.  Each step records in `calls` the simulator-client calls it     *)
(* made and in `ret` the outcome of the controller method it ran.          *)
(***************************************************************************)
EXTENDS Integers, Sequences, FiniteSets, TLC

\* ---------------------------------------------------------------- bounds
\* The configured angles are 0 and MaxAngle (in either role).
MaxAngle == 2
\* cfgs.ARM.TIMEOUT_LIMIT, counted in polls of the goal-wait helper.
MaxPolls == 2

\* ------------------------------------------------------- program constants
max_torque == 5
MaxJointError == 0
lateralFriction == 2
spinningFriction == 1
rollingFriction == 1

gripper_mimic_coeff == <<1, -1, 1, -1, -1, 1>>

jnt_names ==
  << "finger_joint", "left_inner_knuckle_joint", "left_inner_finger_joint",
     "right_outer_knuckle_joint", "right_inner_knuckle_joint",
     "right_inner_finger_joint" >>

PadJoints == <<"left_inner_finger_pad_joint", "right_inner_finger_pad_joint">>

\* ---------------------------------------------------------------- inputs
AllJointNames == jnt_names \o PadJoints

NameSet == {AllJointNames[i] : i \in 1..Len(AllJointNames)}

IndexOf(n) == CHOOSE i \in 1..Len(AllJointNames) : AllJointNames[i] = n

\* A joint-name -> joint-handle dictionary as pybullet hands them out:
\* distinct handles, here base+1 .. base+8 in some order.
MapUp(base) == [n \in NameSet |-> base + IndexOf(n)]

MapDown(base) == [n \in NameSet |-> base + (Len(AllJointNames) + 1 - IndexOf(n))]

Mappings == {MapUp(0), MapDown(10)}

Robots == {1, 2}

Targets == (0 - 1)..(MaxAngle + 1)

VARIABLES
  \* the controller object
  is_activated, mthread_started, gripper_open_angle, gripper_close_angle,
  attrs,            \* robot_id, jnt_to_id, gripper_jnt_ids once assigned
  \* the pybullet client
  realtime, jpos, drv_target,
  \* the foreground caller (fed: some feed_robot_info call has returned)
  fg_pc, fg_args, fg_elapsed, fed,
  \* the mimic thread
  th_pc, th_jid, th_rid, th_pos, th_obs, threads_started,
  \* what the last step did
  calls, ret

ctrl == <<is_activated, mthread_started, gripper_open_angle, gripper_close_angle, attrs>>

sim == <<realtime, jpos, drv_target>>

fg == <<fg_pc, fg_args, fg_elapsed, fed>>

thl == <<th_jid, th_rid, th_pos, th_obs>>

th == <<th_pc, thl, threads_started>>

vars == <<ctrl, sim, fg, th, calls, ret>>

\* ------------------------------------------------------------- attributes
Has(k) == k \in DOMAIN attrs

SetAttr(a, k, v) == [x \in (DOMAIN a) \cup {k} |-> IF x = k THEN v ELSE a[x]]

\* ---------------------------------------------------------- pure functions
Min(a, b) == IF a < b THEN a ELSE b

Max(a, b) == IF a > b THEN a ELSE b

Abs(x) == IF x < 0 THEN 0 - x ELSE x

\* arutil.clamp: clamps n into the range spanned by the two bounds.
clamp(n, a, b) == Max(Min(n, Max(a, b)), Min(a, b))

MimicValWrong(joint_val, i) == joint_val * gripper_mimic_coeff[i - 1]

\* line 197: the value appended for joint i (1-based here, i >= 2).
MimicVal(joint_val, i) == joint_val * gripper_mimic_coeff[i]

mimic_gripper(joint_val) ==
  [i \in 1..Len(jnt_names) |-> IF i = 1 THEN joint_val ELSE MimicVal(joint_val, i)]

\* the slice s[1:] of lines 215 and 218
Rest(s) == SubSeq(s, 2, Len(s))

Repeat(v, n) == [i \in 1..n |-> v]

\* ------------------------------------------------------ simulator calls
MotorCall(rid, jid, tgt) ==
  [fn |-> "setJointMotorControl2", robot |-> rid, jnt |-> jid,
   mode |-> "POSITION_CONTROL", targetPosition |-> tgt, force |-> max_torque]

JointStateCall(rid, jid) == [fn |-> "getJointState", robot |-> rid, jnt |-> jid]

ChangeDynamicsCall(rid, jid) ==
  [fn |-> "changeDynamics", robot |-> rid, jnt |-> jid,
   lateral |-> lateralFriction, spinning |-> spinningFriction,
   rolling |-> rollingFriction]

CollisionCall(rid, j1, j2) ==
  [fn |-> "setCollisionFilterPair", robotA |-> rid, robotB |-> rid,
   jntA |-> j1, jntB |-> j2, enableCollision |-> 0]

set_rest_joints_readback(rid, ids, gripper_pos) ==
  LET max_torques == Repeat(max_torque, Len(jnt_names) - 1)
  IN  [fn |-> "setJointMotorControlArray", robot |-> rid, jnts |-> Rest(ids),
       mode |-> "POSITION_CONTROL",
       targetPositions |-> Rest(mimic_gripper(jpos)),
       targetVelocities |-> Repeat(0, Len(max_torques)),
       forces |-> max_torques]

\* _set_rest_joints, lines 211-222, given the position it works from and the
\* robot handle and joint ids it read.
set_rest_joints_call(rid, ids, gripper_pos) ==
  LET max_torques == Repeat(max_torque, Len(jnt_names) - 1)
  IN  [fn |-> "setJointMotorControlArray", robot |-> rid, jnts |-> Rest(ids),
       mode |-> "POSITION_CONTROL",
       targetPositions |-> Rest(mimic_gripper(gripper_pos)),
       targetVelocities |-> Repeat(0, Len(max_torques)),
       forces |-> max_torques]

\* velocity the simulator reports for the driven joint
SimVel ==
  IF drv_target > jpos THEN 1 ELSE IF drv_target < jpos THEN 0 - 1 ELSE 0

\* ------------------------------------------------------------- outcomes
NoRet ==
  [op |-> "none", out |-> "none", pos |-> 0, wait |-> FALSE,
   success |-> FALSE, num |-> 0, helper |-> FALSE]

Outcome(op, out) == [NoRet EXCEPT !.op = op, !.out = out]

NotActivated(op) == Outcome(op, "NotActivated")

AttributeError(op) == Outcome(op, "AttributeError")

LoopStep == Outcome("_th_mimic_gripper", "none")

\* ------------------------------------------------------------------ Init
Init ==
  /\ is_activated = FALSE
  /\ mthread_started = FALSE
  /\ gripper_open_angle \in {0, MaxAngle}
  /\ gripper_close_angle = MaxAngle - gripper_open_angle
  /\ attrs = <<>>
  /\ realtime \in BOOLEAN
  /\ jpos = 0
  /\ drv_target = 0
  /\ fg_pc = "idle"
  /\ fg_args = <<>>
  /\ fg_elapsed = 0
  /\ fed = FALSE
  /\ th_pc = "none"
  /\ th_jid = 0
  /\ th_rid = 0
  /\ th_pos = 0
  /\ th_obs = [act |-> FALSE, rt |-> FALSE, gp |-> FALSE]
  /\ threads_started = 0
  /\ calls = <<>>
  /\ ret = NoRet

\* ------------------------------------------- activate / deactivate / mode
activate ==
  /\ fg_pc = "idle"
  /\ is_activated' = TRUE
  /\ calls' = <<>>
  /\ ret' = Outcome("activate", "returned")
  /\ UNCHANGED <<mthread_started, gripper_open_angle, gripper_close_angle, attrs, sim, fg, th>>

deactivate_other_attribute ==
  /\ fg_pc = "idle"
  /\ calls' = <<>>
  /\ ret' = Outcome("deactivate", "returned")
  /\ UNCHANGED <<ctrl, sim, fg, th>>

deactivate ==
  /\ fg_pc = "idle"
  /\ is_activated' = FALSE
  /\ calls' = <<>>
  /\ ret' = Outcome("deactivate", "returned")
  /\ UNCHANGED <<mthread_started, gripper_open_angle, gripper_close_angle, attrs, sim, fg, th>>

\* the caller switches the client between real-time and step mode
set_realtime(b) ==
  /\ fg_pc = "idle"
  /\ realtime # b
  /\ realtime' = b
  /\ calls' = <<>>
  /\ ret' = Outcome("set_realtime", "returned")
  /\ UNCHANGED <<ctrl, jpos, drv_target, fg, th>>

\* the simulator moves the driven joint one unit towards its motor target
\* (continuously in real-time mode, on the caller's stepSimulation otherwise)
Physics ==
  /\ realtime \/ fg_pc = "idle"
  /\ jpos # drv_target
  /\ jpos' = jpos + SimVel
  /\ calls' = <<>>
  /\ ret' = NoRet
  /\ UNCHANGED <<ctrl, realtime, drv_target, fg, th>>

\* ------------------------------------------------------- feed_robot_info
\* line 56: self.robot_id = robot_id
feed_robot_info(robot, jnt_map) ==
  /\ fg_pc = "idle"
  /\ attrs' = SetAttr(attrs, "robot_id", robot)
  /\ fg_pc' = "feed_57"
  /\ fg_args' = <<jnt_map>>
  /\ calls' = <<>>
  /\ ret' = Outcome("feed_robot_info", "pending")
  /\ UNCHANGED <<is_activated, mthread_started, gripper_open_angle, gripper_close_angle>>
  /\ UNCHANGED <<sim, fg_elapsed, fed, th>>

\* line 57: self.jnt_to_id = jnt_to_id
feed_57 ==
  /\ fg_pc = "feed_57"
  /\ attrs' = SetAttr(attrs, "jnt_to_id", fg_args[1])
  /\ fg_pc' = "feed_58"
  /\ fg_args' = <<>>
  /\ calls' = <<>>
  /\ ret' = Outcome("feed_robot_info", "pending")
  /\ UNCHANGED <<is_activated, mthread_started, gripper_open_angle, gripper_close_angle>>
  /\ UNCHANGED <<sim, fg_elapsed, fed, th>>

feed_58_first_only ==
  /\ fg_pc = "feed_58"
  /\ attrs' = IF Has("gripper_jnt_ids")
              THEN attrs
              ELSE SetAttr(attrs, "gripper_jnt_ids",
                           [i \in 1..Len(jnt_names) |-> attrs.jnt_to_id[jnt_names[i]]])
  /\ fg_pc' = "feed_61"
  /\ calls' = <<>>
  /\ ret' = Outcome("feed_robot_info", "pending")
  /\ UNCHANGED <<is_activated, mthread_started, gripper_open_angle, gripper_close_angle>>
  /\ UNCHANGED <<sim, fg_args, fg_elapsed, fed, th>>

\* lines 58-60: self.gripper_jnt_ids = [self.jnt_to_id[jnt] for jnt in jnt_names]
feed_58 ==
  /\ fg_pc = "feed_58"
  /\ attrs' = SetAttr(attrs, "gripper_jnt_ids",
                      [i \in 1..Len(jnt_names) |-> attrs.jnt_to_id[jnt_names[i]]])
  /\ fg_pc' = "feed_61"
  /\ calls' = <<>>
  /\ ret' = Outcome("feed_robot_info", "pending")
  /\ UNCHANGED <<is_activated, mthread_started, gripper_open_angle, gripper_close_angle>>
  /\ UNCHANGED <<sim, fg_args, fg_elapsed, fed, th>>

SpawnThread ==
  /\ mthread_started' = TRUE
  /\ threads_started' = threads_started + 1
  /\ th_pc' = "check_act"

start_mimic_thread_unguarded ==
  IF threads_started < 2
  THEN SpawnThread
  ELSE UNCHANGED <<mthread_started, threads_started, th_pc>>

\* lines 75-82: the thread is started unless one was started before
start_mimic_thread ==
  IF ~mthread_started
  THEN SpawnThread
  ELSE UNCHANGED <<mthread_started, threads_started, th_pc>>

\* lines 61-82: friction of the two pad joints, then the thread start
feed_61 ==
  /\ fg_pc = "feed_61"
  /\ calls' = << ChangeDynamicsCall(attrs.robot_id, attrs.jnt_to_id[PadJoints[1]]),
                 ChangeDynamicsCall(attrs.robot_id, attrs.jnt_to_id[PadJoints[2]]) >>
  /\ start_mimic_thread
  /\ fg_pc' = "idle"
  /\ fed' = TRUE
  /\ ret' = Outcome("feed_robot_info", "returned")
  /\ UNCHANGED <<is_activated, gripper_open_angle, gripper_close_angle, attrs>>
  /\ UNCHANGED <<sim, fg_args, fg_elapsed, thl>>

\* --------------------------------------------------------------- set_pos
TgtPosUnclamped(pos) == pos

\* lines 124-126
TgtPos(pos) == clamp(pos, gripper_open_angle, gripper_close_angle)

ShouldWaitAlways(wait) == realtime

ShouldWaitAnyMode(wait) == wait

\* line 137: self._pb.in_realtime_mode() and wait
ShouldWait(wait) == realtime /\ wait

ReturnLost(reached) == FALSE

\* lines 138-146: success is what wait_to_reach_jnt_goal returned
SetPosReturn(reached) == reached

\* lines 123-146, entered from set_pos itself or from open / close
SetPosBody(op, pos, wait) ==
  IF ~Has("jnt_to_id")
  THEN /\ calls' = <<>>
       /\ ret' = [AttributeError(op) EXCEPT !.pos = pos, !.wait = wait]
       /\ UNCHANGED <<ctrl, sim, fg, th>>
  ELSE LET tgt_pos == TgtPos(pos)
           driven  == MotorCall(attrs.robot_id, attrs.jnt_to_id[jnt_names[1]], tgt_pos)
           rest    == IF ~realtime
                      THEN <<set_rest_joints_call(attrs.robot_id,
                                                  attrs.gripper_jnt_ids, tgt_pos)>>
                      ELSE <<>>
       IN  /\ calls' = <<driven>> \o rest
           /\ drv_target' = tgt_pos
           /\ IF ShouldWait(wait)
              THEN /\ fg_pc' = "wait"
                   /\ fg_args' = <<op, pos, tgt_pos>>
                   /\ fg_elapsed' = 0
                   /\ ret' = [Outcome(op, "pending") EXCEPT
                                !.pos = pos, !.wait = wait, !.helper = TRUE]
              ELSE /\ ret' = [Outcome(op, "returned") EXCEPT
                                !.pos = pos, !.wait = wait, !.success = FALSE]
                   /\ UNCHANGED <<fg_pc, fg_args, fg_elapsed>>
           /\ UNCHANGED <<ctrl, realtime, jpos, fed, th>>

set_pos(pos, wait) ==
  /\ fg_pc = "idle"
  /\ SetPosBody("set_pos", pos, wait)

open_with_close_angle(wait) ==
  /\ fg_pc = "idle"
  /\ IF ~is_activated
     THEN /\ calls' = <<>>
          /\ ret' = [NotActivated("open") EXCEPT !.wait = wait]
          /\ UNCHANGED <<ctrl, sim, fg, th>>
     ELSE SetPosBody("open", gripper_close_angle, wait)

\* lines 84-95
open(wait) ==
  /\ fg_pc = "idle"
  /\ IF ~is_activated
     THEN /\ calls' = <<>>
          /\ ret' = [NotActivated("open") EXCEPT !.wait = wait]
          /\ UNCHANGED <<ctrl, sim, fg, th>>
     ELSE SetPosBody("open", gripper_open_angle, wait)

\* lines 97-108
close(wait) ==
  /\ fg_pc = "idle"
  /\ IF ~is_activated
     THEN /\ calls' = <<>>
          /\ ret' = [NotActivated("close") EXCEPT !.wait = wait]
          /\ UNCHANGED <<ctrl, sim, fg, th>>
     ELSE SetPosBody("close", gripper_close_angle, wait)

\* wait_to_reach_jnt_goal: one poll of the helper set_pos blocks in.  It gives
\* up once the timeout has elapsed, otherwise reads the position through
\* get_pos and succeeds when it is within max_error of the goal.
WaitPoll ==
  /\ fg_pc = "wait"
  /\ LET op   == fg_args[1]
         pos  == fg_args[2]
         goal == fg_args[3]
         done(reached) ==
           /\ ret' = [Outcome(op, "returned") EXCEPT
                        !.pos = pos, !.wait = TRUE, !.helper = TRUE,
                        !.success = SetPosReturn(reached), !.num = fg_elapsed]
           /\ fg_pc' = "idle"
           /\ fg_args' = <<>>
           /\ fg_elapsed' = 0
     IN  IF fg_elapsed > MaxPolls
         THEN /\ calls' = <<>>
              /\ done(FALSE)
         ELSE IF ~is_activated
         THEN /\ calls' = <<>>
              /\ ret' = [NotActivated(op) EXCEPT
                           !.pos = pos, !.wait = TRUE, !.helper = TRUE]
              /\ fg_pc' = "idle"
              /\ fg_args' = <<>>
              /\ fg_elapsed' = 0
         ELSE /\ calls' = <<JointStateCall(attrs.robot_id, attrs.jnt_to_id[jnt_names[1]])>>
              /\ IF Abs(jpos - goal) <= MaxJointError
                 THEN done(TRUE)
                 ELSE /\ fg_elapsed' = fg_elapsed + 1
                      /\ ret' = [Outcome(op, "polling") EXCEPT
                                   !.pos = pos, !.wait = TRUE, !.helper = TRUE]
                      /\ UNCHANGED <<fg_pc, fg_args>>
  /\ UNCHANGED <<ctrl, sim, fed, th>>

\* ------------------------------------------------------ get_pos / get_vel
get_pos_unchecked ==
  /\ fg_pc = "idle"
  /\ IF ~Has("jnt_to_id")
     THEN /\ calls' = <<>>
          /\ ret' = AttributeError("get_pos")
     ELSE /\ calls' = <<JointStateCall(attrs.robot_id, attrs.jnt_to_id[jnt_names[1]])>>
          /\ ret' = [Outcome("get_pos", "returned") EXCEPT !.num = jpos]
  /\ UNCHANGED <<ctrl, sim, fg, th>>

\* lines 148-159
get_pos ==
  /\ fg_pc = "idle"
  /\ IF ~is_activated
     THEN /\ calls' = <<>>
          /\ ret' = NotActivated("get_pos")
     ELSE IF ~Has("jnt_to_id")
     THEN /\ calls' = <<>>
          /\ ret' = AttributeError("get_pos")
     ELSE /\ calls' = <<JointStateCall(attrs.robot_id, attrs.jnt_to_id[jnt_names[1]])>>
          /\ ret' = [Outcome("get_pos", "returned") EXCEPT !.num = jpos]
  /\ UNCHANGED <<ctrl, sim, fg, th>>

\* lines 161-172
get_vel ==
  /\ fg_pc = "idle"
  /\ IF ~is_activated
     THEN /\ calls' = <<>>
          /\ ret' = NotActivated("get_vel")
     ELSE IF ~Has("jnt_to_id")
     THEN /\ calls' = <<>>
          /\ ret' = AttributeError("get_vel")
     ELSE /\ calls' = <<JointStateCall(attrs.robot_id, attrs.jnt_to_id[jnt_names[1]])>>
          /\ ret' = [Outcome("get_vel", "returned") EXCEPT !.num = SimVel]
  /\ UNCHANGED <<ctrl, sim, fg, th>>

\* ------------------------------------------ disable_gripper_self_collision
InnerStartSelf(i) == i

\* line 181: for j in range(i + 1, len(self.jnt_names))
InnerStart(i) == i + 1

RECURSIVE PairsFrom(_, _)
\* the (i, j) the two loops of lines 180-181 visit, in order, from (i, j) on
PairsFrom(i, j) ==
  IF i > Len(jnt_names) THEN <<>>
  ELSE IF j > Len(jnt_names) THEN PairsFrom(i + 1, InnerStart(i + 1))
  ELSE <<<<i, j>>>> \o PairsFrom(i, j + 1)

JointPairs == PairsFrom(1, InnerStart(1))

\* lines 174-188
disable_gripper_self_collision ==
  /\ fg_pc = "idle"
  /\ IF ~is_activated
     THEN /\ calls' = <<>>
          /\ ret' = NotActivated("disable_gripper_self_collision")
     ELSE IF ~Has("jnt_to_id")
     THEN /\ calls' = <<>>
          /\ ret' = AttributeError("disable_gripper_self_collision")
     ELSE /\ calls' = [k \in 1..Len(JointPairs) |->
                         CollisionCall(attrs.robot_id,
                                       attrs.jnt_to_id[jnt_names[JointPairs[k][1]]],
                                       attrs.jnt_to_id[jnt_names[JointPairs[k][2]]])]
          /\ ret' = Outcome("disable_gripper_self_collision", "returned")
  /\ UNCHANGED <<ctrl, sim, fg, th>>

\* ------------------------------------------------------ _th_mimic_gripper
\* what the checks of the current iteration have found so far
NoObs == [act |-> FALSE, rt |-> FALSE, gp |-> FALSE]

\* line 206, left operand: self._is_activated
ThCheckAct ==
  /\ th_pc = "check_act"
  /\ IF is_activated
     THEN /\ th_pc' = "check_rt"
          /\ th_obs' = [th_obs EXCEPT !.act = TRUE]
     ELSE /\ th_pc' = "sleep"
          /\ UNCHANGED th_obs
  /\ calls' = <<>>
  /\ ret' = LoopStep
  /\ UNCHANGED <<ctrl, sim, fg, th_jid, th_rid, th_pos, threads_started>>

ThCheckRtSkipped ==
  /\ th_pc = "check_rt"
  /\ th_pc' = "gp_155"
  /\ th_obs' = [th_obs EXCEPT !.rt = realtime]
  /\ calls' = <<>>
  /\ ret' = LoopStep
  /\ UNCHANGED <<ctrl, sim, fg, th_jid, th_rid, th_pos, threads_started>>

\* line 206, right operand: self._pb.in_realtime_mode()
ThCheckRt ==
  /\ th_pc = "check_rt"
  /\ IF realtime
     THEN /\ th_pc' = "gp_155"
          /\ th_obs' = [th_obs EXCEPT !.rt = TRUE]
     ELSE /\ th_pc' = "sleep"
          /\ UNCHANGED th_obs
  /\ calls' = <<>>
  /\ ret' = LoopStep
  /\ UNCHANGED <<ctrl, sim, fg, th_jid, th_rid, th_pos, threads_started>>

\* lines 207, 213-214, 155-156: get_pos() raises when the flag is false; the
\* exception leaves the thread's target function, which ends the thread
ThGetPos155 ==
  /\ th_pc = "gp_155"
  /\ IF ~is_activated
     THEN /\ th_pc' = "dead"
          /\ ret' = NotActivated("_th_mimic_gripper")
          /\ UNCHANGED th_obs
     ELSE /\ th_pc' = "gp_157"
          /\ ret' = LoopStep
          /\ th_obs' = [th_obs EXCEPT !.gp = TRUE]
  /\ calls' = <<>>
  /\ UNCHANGED <<ctrl, sim, fg, th_jid, th_rid, th_pos, threads_started>>

\* line 157: jnt_id = self.jnt_to_id[self.jnt_names[0]]
ThGetPos157 ==
  /\ th_pc = "gp_157"
  /\ th_jid' = attrs.jnt_to_id[jnt_names[1]]
  /\ th_pc' = "gp_158"
  /\ calls' = <<>>
  /\ ret' = LoopStep
  /\ UNCHANGED <<ctrl, sim, fg, th_rid, th_pos, th_obs, threads_started>>

\* line 158: pos = self._pb.getJointState(self.robot_id, jnt_id)[0]
ThGetPos158 ==
  /\ th_pc = "gp_158"
  /\ calls' = <<JointStateCall(attrs.robot_id, th_jid)>>
  /\ th_pos' = jpos
  /\ th_pc' = "send_217"
  /\ ret' = LoopStep
  /\ UNCHANGED <<ctrl, sim, fg, th_jid, th_rid, th_obs, threads_started>>

\* line 217: the first argument, self.robot_id, is read
ThSend217 ==
  /\ th_pc = "send_217"
  /\ th_rid' = attrs.robot_id
  /\ th_pc' = "send_218"
  /\ calls' = <<>>
  /\ ret' = LoopStep
  /\ UNCHANGED <<ctrl, sim, fg, th_jid, th_pos, th_obs, threads_started>>

\* lines 215-222: self.gripper_jnt_ids[1:] is read and the batch is sent
ThSend218 ==
  /\ th_pc = "send_218"
  /\ calls' = <<set_rest_joints_call(th_rid, attrs.gripper_jnt_ids, th_pos)>>
  /\ th_pc' = "sleep"
  /\ ret' = LoopStep
  /\ UNCHANGED <<ctrl, sim, fg, thl, threads_started>>

\* line 208: time.sleep(0.005), then the next iteration
ThSleep ==
  /\ th_pc = "sleep"
  /\ th_pc' = "check_act"
  /\ th_jid' = 0
  /\ th_rid' = 0
  /\ th_pos' = 0
  /\ th_obs' = NoObs
  /\ calls' = <<>>
  /\ ret' = LoopStep
  /\ UNCHANGED <<ctrl, sim, fg, threads_started>>

\* ------------------------------------------------------------------ Next
Next ==
  \/ activate
  \/ deactivate
  \/ \E b \in BOOLEAN : set_realtime(b)
  \/ Physics
  \/ \E robot \in Robots, jnt_map \in Mappings : feed_robot_info(robot, jnt_map)
  \/ feed_57
  \/ feed_58
  \/ feed_61
  \/ \E pos \in Targets, wait \in BOOLEAN : set_pos(pos, wait)
  \/ \E wait \in BOOLEAN : open(wait)
  \/ \E wait \in BOOLEAN : close(wait)
  \/ WaitPoll
  \/ get_pos
  \/ get_vel
  \/ disable_gripper_self_collision
  \/ ThCheckAct
  \/ ThCheckRt
  \/ ThGetPos155
  \/ ThGetPos157
  \/ ThGetPos158
  \/ ThSend217
  \/ ThSend218
  \/ ThSleep

Spec == Init /\ [][Next]_vars

\* The caller's thread keeps running while it polls inside set_pos.
FairSpec == Spec /\ WF_vars(WaitPoll)

\* ------------------------------------------------- further specifications
\* lines 158 and 217-222 when the client call raises (pybullet.error): the
\* exception leaves get_pos / _set_rest_joints and then the thread's target
\* function, where nothing catches it
ThClientError ==
  /\ th_pc \in {"gp_158", "send_218"}
  /\ calls' = IF th_pc = "gp_158"
              THEN <<JointStateCall(attrs.robot_id, th_jid)>>
              ELSE <<set_rest_joints_call(th_rid, attrs.gripper_jnt_ids, th_pos)>>
  /\ th_pc' = "dead"
  /\ ret' = Outcome("_th_mimic_gripper", "ClientError")
  /\ UNCHANGED <<ctrl, sim, fg, thl, threads_started>>

NextFail == Next \/ ThClientError

\* the program with a simulator client whose calls may fail in the thread
SpecFail == Init /\ [][NextFail]_vars

\* the (robot handle, mapping) pairs of an arm that is loaded and, after a
\* reset of the simulation, loaded again: a new body id with new joint ids
Resets == {<<1, MapUp(0)>>, <<2, MapDown(10)>>}

NextReset ==
  \/ activate
  \/ deactivate
  \/ \E b \in BOOLEAN : set_realtime(b)
  \/ Physics
  \/ \E b \in Resets : feed_robot_info(b[1], b[2])
  \/ feed_57
  \/ feed_58
  \/ feed_61
  \/ \E pos \in Targets, wait \in BOOLEAN : set_pos(pos, wait)
  \/ \E wait \in BOOLEAN : open(wait)
  \/ \E wait \in BOOLEAN : close(wait)
  \/ WaitPoll
  \/ get_pos
  \/ get_vel
  \/ disable_gripper_self_collision
  \/ ThCheckAct
  \/ ThCheckRt
  \/ ThGetPos155
  \/ ThGetPos157
  \/ ThGetPos158
  \/ ThSend217
  \/ ThSend218
  \/ ThSleep

\* the program when every feed_robot_info call passes one of Resets
SpecReset == Init /\ [][NextReset]_vars

NextFixedMode ==
  \/ activate
  \/ deactivate
  \/ Physics
  \/ \E robot \in Robots, jnt_map \in Mappings : feed_robot_info(robot, jnt_map)
  \/ feed_57
  \/ feed_58
  \/ feed_61
  \/ \E pos \in Targets, wait \in BOOLEAN : set_pos(pos, wait)
  \/ \E wait \in BOOLEAN : open(wait)
  \/ \E wait \in BOOLEAN : close(wait)
  \/ WaitPoll
  \/ get_pos
  \/ get_vel
  \/ disable_gripper_self_collision
  \/ ThCheckAct
  \/ ThCheckRt
  \/ ThGetPos155
  \/ ThGetPos157
  \/ ThGetPos158
  \/ ThSend217
  \/ ThSend218
  \/ ThSleep

\* the program when the caller never switches the client's mode: it stays
\* in the mode it was created in, real-time or not
SpecFixedMode == Init /\ [][NextFixedMode]_vars

\* =================================================================
\* Properties
\* =================================================================
MotorCalls == {i \in 1..Len(calls) : calls[i].fn = "setJointMotorControl2"}

BatchCalls == {i \in 1..Len(calls) : calls[i].fn = "setJointMotorControlArray"}

ByLoop == ret.op = "_th_mimic_gripper"

SetPosOps == {"set_pos", "open", "close"}

\* the last step ran lines 123-134 of set_pos (it had the attributes it needs)
SetPosIssued ==
  /\ ret.op \in SetPosOps
  /\ \/ ret.out = "pending"
     \/ ret.out = "returned" /\ ~ret.helper

\* the last step returned from set_pos through the goal-wait helper
WaitReturned == ret.op \in SetPosOps /\ ret.helper /\ ret.out = "returned"

\* C1: set_pos called on a set-up controller while the activation flag is
\* false fails with the not-activated error and sends no driven-joint or
\* mimicked-joint motor command.  (The code checks nothing: violated.)
C1_SetPosRejectedWhenInactive ==
  (ret.op = "set_pos" /\ fed /\ ~is_activated) =>
     (ret.out = "NotActivated" /\ MotorCalls = {} /\ BatchCalls = {})

\* C2 as stated: whenever the mimic loop sends a batch, the activation flag
\* is true and the runtime is in real-time mode at that moment.
C2_BatchOnlyWhileActiveRealtime ==
  (ByLoop /\ BatchCalls # {}) => (is_activated /\ realtime)

\* C2 amended: whenever the mimic loop sends a batch, earlier in the same
\* iteration its loop test found the flag true and the runtime in real-time
\* mode, and get_pos found the flag true.
C2_BatchOnlyAfterChecks ==
  (ByLoop /\ BatchCalls # {}) => (th_obs.act /\ th_obs.rt /\ th_obs.gp)

\* the loop sends a batch although the flag is now false and the mode is off
C2_Witness == ByLoop /\ BatchCalls # {} /\ ~is_activated /\ ~realtime

\* C3: once started, the mimic loop never terminates.  (A deactivate()
\* between the loop test and get_pos's test ends the thread: violated.)
C3_LoopNeverTerminates == th_pc # "dead"

\* C4: no thread exists before the first feed_robot_info call returns, and
\* exactly one has been started after any number of calls that returned.
C4_ThreadStartedOnce ==
  /\ ~fed => threads_started = 0
  /\ fed => threads_started = 1

\* a feed_robot_info call returns while the loop is in mid-iteration, so it
\* is not the first call
C4_Witness ==
  /\ ret.op = "feed_robot_info" /\ ret.out = "returned"
  /\ th_pc = "sleep" /\ threads_started = 1

\* C5: set_pos issues exactly one driven-joint command, whose target is the
\* requested one if that lies between the smaller and the larger of
\* open_angle and close_angle, and the nearest of the two otherwise.
C5_DrivenTargetClamped ==
  SetPosIssued =>
    LET lo == IF gripper_open_angle < gripper_close_angle
              THEN gripper_open_angle ELSE gripper_close_angle
        hi == IF gripper_open_angle < gripper_close_angle
              THEN gripper_close_angle ELSE gripper_open_angle
        want == IF ret.pos < lo THEN lo ELSE IF ret.pos > hi THEN hi ELSE ret.pos
    IN  /\ MotorCalls = {1}
        /\ calls[1].targetPosition = want
        /\ calls[1].targetPosition >= lo
        /\ calls[1].targetPosition <= hi
        /\ calls[1].force = max_torque
        /\ calls[1].jnt = attrs.jnt_to_id["finger_joint"]

\* a target above the range, with open_angle the larger bound
C5_Witness ==
  /\ SetPosIssued /\ ret.op = "set_pos"
  /\ gripper_open_angle > gripper_close_angle
  /\ ret.pos > gripper_open_angle
  /\ calls[1].targetPosition = gripper_open_angle

GuardedOps == {"get_pos", "get_vel", "open", "close", "disable_gripper_self_collision"}

\* C6: get_pos, get_vel, open, close and disable_gripper_self_collision fail
\* with the not-activated error and call the simulator client not at all when
\* the flag is false, and do not raise that error when it is true.
C6_AccessorsGuarded ==
  ret.op \in GuardedOps =>
    /\ ~is_activated => (ret.out = "NotActivated" /\ calls = <<>>)
    /\ is_activated => ret.out # "NotActivated"

\* get_pos is refused after the flag had been true (the loop got past its
\* test) and was cleared again
C6_Witness ==
  /\ ret.op = "get_pos" /\ ret.out = "NotActivated"
  /\ th_pc = "gp_157" /\ ~is_activated

\* C7: every mimicked-joint batch, from the loop (built from the position p
\* it read) or from set_pos (built from the target p it commanded), goes to
\* joints 2..6 of jnt_names of one mapping, not to the driven joint, with
\* targets (-p, p, -p, -p, p), zero velocities and the maximum torque.
C7_BatchShape ==
  \A i \in BatchCalls :
    LET b == calls[i]
        p == IF ByLoop THEN th_pos ELSE calls[1].targetPosition
    IN  /\ b.targetPositions = <<0 - p, p, 0 - p, 0 - p, p>>
        /\ b.targetVelocities = <<0, 0, 0, 0, 0>>
        /\ b.forces = <<max_torque, max_torque, max_torque, max_torque, max_torque>>
        /\ b.mode = "POSITION_CONTROL"
        /\ \E m \in Mappings :
             /\ b.jnts = << m["left_inner_knuckle_joint"], m["left_inner_finger_joint"],
                            m["right_outer_knuckle_joint"], m["right_inner_knuckle_joint"],
                            m["right_inner_finger_joint"] >>
             /\ \A k \in 1..Len(b.jnts) : b.jnts[k] # m["finger_joint"]

\* the loop sends a batch built from a non-zero position
C7_Witness == ByLoop /\ BatchCalls # {} /\ th_pos # 0

\* C8: on an activated, set-up controller set_pos(x, wait=False) returns
\* False at once, in either mode, without entering the goal-wait helper.
C8_NoWaitReturnsFalse ==
  (ret.op = "set_pos" /\ ~ret.wait /\ is_activated /\ fed) =>
    /\ ret.out = "returned"
    /\ ~ret.success
    /\ ~ret.helper
    /\ fg_pc = "idle"

\* set_pos(x, wait=False) has returned in real-time mode while activated
C8_Witness ==
  /\ ret.op = "set_pos" /\ ~ret.wait /\ is_activated /\ realtime
  /\ ret.out = "returned" /\ MotorCalls = {1}

C9_Safety ==
  (WaitReturned /\ is_activated /\ realtime) =>
    /\ ret.success => (Abs(jpos - drv_target) <= MaxJointError /\ ret.num <= MaxPolls)
    /\ ~ret.success => ret.num > MaxPolls

\* C9: activated and in real-time mode, set_pos(target, wait=True) always
\* returns: True with the driven joint within MaxJointError of the clamped
\* target before the timeout, False after the timeout elapsed.
C9_WaitReturns ==
  /\ []C9_Safety
  /\ (fg_pc = "wait" /\ is_activated) ~> (fg_pc = "idle")

\* set_pos(.., wait=True) returns True after the joint had to move
C9_Witness ==
  /\ WaitReturned /\ ret.op = "set_pos" /\ is_activated /\ realtime
  /\ ret.success /\ ret.num >= 1

\* C10: one disable_gripper_self_collision call on an activated controller
\* with 6 distinct joint handles makes exactly 15 collision-disable calls,
\* one for every unordered pair of the 6 handles, none repeated in either
\* order, none pairing a joint with itself.
C10_AllPairsOnce ==
  (ret.op = "disable_gripper_self_collision" /\ ret.out = "returned") =>
    LET hs == {attrs.jnt_to_id[jnt_names[i]] : i \in 1..Len(jnt_names)}
        pair(k) == {calls[k].jntA, calls[k].jntB}
    IN  Cardinality(hs) = 6 =>
          /\ Len(calls) = 15
          /\ \A k \in 1..Len(calls) :
               /\ calls[k].fn = "setCollisionFilterPair"
               /\ calls[k].enableCollision = 0
               /\ calls[k].robotA = attrs.robot_id
               /\ calls[k].robotB = attrs.robot_id
               /\ calls[k].jntA # calls[k].jntB
               /\ pair(k) \subseteq hs
          /\ \A k, l \in 1..Len(calls) : k # l => pair(k) # pair(l)
          /\ \A a, b \in hs : a # b => \E k \in 1..Len(calls) : pair(k) = {a, b}

\* the call has returned on an activated controller
C10_Witness ==
  /\ ret.op = "disable_gripper_self_collision" /\ ret.out = "returned"
  /\ is_activated /\ Len(calls) = 15

\* C11: a simulator-client call that fails inside the mimic loop (the
\* position read or the batch) does not stop the loop: it goes on to its
\* next iteration.  (Nothing catches the error, the thread ends: violated.)
C11_LoopSurvivesClientError ==
  (ByLoop /\ ret.out = "ClientError") => th_pc \in {"sleep", "check_act"}

\* C12: outside real-time mode a set_pos call that gets as far as its motor
\* command sends, after the driven-joint command, exactly one mimicked-joint
\* batch, built from the commanded (clamped) target and not from a position
\* read from the simulator; in real-time mode set_pos sends no batch.
C12_SetPosPushesRestOnce ==
  SetPosIssued =>
    /\ ~realtime =>
         LET t == calls[1].targetPosition
         IN  /\ Len(calls) = 2
             /\ MotorCalls = {1}
             /\ BatchCalls = {2}
             /\ calls[2].targetPositions = <<0 - t, t, 0 - t, 0 - t, t>>
             /\ calls[2].robot = attrs.robot_id
    /\ realtime => (Len(calls) = 1 /\ MotorCalls = {1} /\ BatchCalls = {})

\* set_pos sends its batch while the joint is elsewhere than the target
C12_Witness ==
  /\ SetPosIssued /\ ret.op = "set_pos" /\ ~realtime
  /\ BatchCalls = {2}
  /\ calls[1].targetPosition # 0
  /\ jpos # calls[1].targetPosition

\* C13: the activation flag is false after construction; activate() leaves
\* it true and deactivate() leaves it false whatever it was before; neither
\* changes the joint bindings, the thread-started flag, the bounds, the thread
\* or the simulator, nor calls the client; no other step changes the flag.
C13_FlagOnlyToggled ==
  /\ ~is_activated
  /\ [][ /\ is_activated' # is_activated => ret'.op \in {"activate", "deactivate"}
         /\ ret'.op = "activate" => is_activated'
         /\ ret'.op = "deactivate" => ~is_activated'
         /\ ret'.op \in {"activate", "deactivate"} =>
              /\ calls' = <<>>
              /\ ret'.out = "returned"
              /\ UNCHANGED <<attrs, mthread_started, threads_started>>
              /\ UNCHANGED <<gripper_open_angle, gripper_close_angle>>
              /\ UNCHANGED <<sim, fg, th>>
     ]_vars

\* deactivate() has cleared the flag on a set-up controller whose loop had
\* seen it true
C13_Witness ==
  /\ ret.op = "deactivate" /\ ~is_activated
  /\ fed /\ mthread_started /\ th_pc = "gp_157"

\* C14 as stated: once the first feed_robot_info call has returned, the
\* robot handle, jnt_to_id and the gripper joint handles never change.
C14_BindingsFixedAfterFirstSetup == [][fed => attrs' = attrs]_vars

\* C14 amended: the bindings change only in steps of feed_robot_info, and
\* whenever a feed_robot_info call returns, the first or a later one, the 6
\* gripper joint handles are those its mapping gives the names of jnt_names.
C14_BindingsOnlyByFeed ==
  /\ [][attrs' # attrs => ret'.op = "feed_robot_info"]_vars
  /\ [](ret.op = "feed_robot_info" /\ ret.out = "returned" =>
          /\ DOMAIN attrs = {"robot_id", "jnt_to_id", "gripper_jnt_ids"}
          /\ attrs.jnt_to_id \in Mappings
          /\ attrs.robot_id \in Robots
          /\ attrs.gripper_jnt_ids =
               << attrs.jnt_to_id["finger_joint"],
                  attrs.jnt_to_id["left_inner_knuckle_joint"],
                  attrs.jnt_to_id["left_inner_finger_joint"],
                  attrs.jnt_to_id["right_outer_knuckle_joint"],
                  attrs.jnt_to_id["right_inner_knuckle_joint"],
                  attrs.jnt_to_id["right_inner_finger_joint"] >>)

\* a later feed_robot_info call has returned with another robot handle than
\* the one the loop read during this iteration
C14_Witness ==
  /\ ret.op = "feed_robot_info" /\ ret.out = "returned"
  /\ th_pc = "send_218" /\ th_rid # attrs.robot_id

\* C15: on an activated controller open(wait) does what set_pos(open_angle,
\* wait) does and close(wait) what set_pos(close_angle, wait) does: the
\* driven joint is commanded to exactly that bound, with the batch outside
\* real-time mode, and the call returns as set_pos does: False at once unless
\* it waits, and from the wait True exactly when the bound was reached in time.
C15_OpenCloseAsSetPos ==
  (ret.op \in {"open", "close"} /\ is_activated) =>
    LET bound == IF ret.op = "open" THEN gripper_open_angle ELSE gripper_close_angle
    IN  /\ ret.out \in {"AttributeError", "pending", "polling", "returned"}
        /\ ret.out # "AttributeError" => (ret.pos = bound /\ drv_target = bound)
        /\ SetPosIssued =>
             /\ MotorCalls = {1}
             /\ calls[1].targetPosition = bound
             /\ calls[1].robot = attrs.robot_id
             /\ calls[1].jnt = attrs.jnt_to_id["finger_joint"]
             /\ calls[1].force = max_torque
             /\ ~realtime =>
                  /\ BatchCalls = {2}
                  /\ calls[2].targetPositions =
                       <<0 - bound, bound, 0 - bound, 0 - bound, bound>>
             /\ realtime => BatchCalls = {}
             /\ ret.out = "pending" <=> (realtime /\ ret.wait)
             /\ ret.out = "returned" => ~ret.success
        /\ WaitReturned =>
             /\ ret.wait /\ realtime
             /\ ret.success => (Abs(jpos - bound) <= MaxJointError /\ ret.num <= MaxPolls)
             /\ ~ret.success => ret.num > MaxPolls

\* open(wait=True) has returned True after the joint moved to a non-zero
\* open_angle
C15_Witness ==
  /\ ret.op = "open" /\ WaitReturned /\ ret.success /\ is_activated
  /\ gripper_open_angle = MaxAngle /\ jpos = gripper_open_angle

\* C16: every simulator call of the mimic loop (the position read and the
\* batch) names a robot handle and joint handles that one and the same
\* feed_robot_info call bound.  (The loop reads robot_id and the joint ids in
\* separate steps with no lock, a feed_robot_info call in between mixes two
\* bindings: violated.)
C16_LoopUsesOneBinding ==
  ByLoop =>
    \A i \in 1..Len(calls) :
      /\ calls[i].fn = "setJointMotorControlArray" =>
           \E b \in Resets :
             /\ calls[i].robot = b[1]
             /\ calls[i].jnts =
                  << b[2]["left_inner_knuckle_joint"], b[2]["left_inner_finger_joint"],
                     b[2]["right_outer_knuckle_joint"], b[2]["right_inner_knuckle_joint"],
                     b[2]["right_inner_finger_joint"] >>
      /\ calls[i].fn = "getJointState" =>
           \E b \in Resets :
             /\ calls[i].robot = b[1]
             /\ calls[i].jnt = b[2]["finger_joint"]

\* C17: while the runtime mode does not change, every mimicked-joint batch
\* comes from the mimic loop if the mode is real-time and from a set_pos
\* call if it is not, so only one of the two contexts sends batches.
C17_OneContextPerMode ==
  BatchCalls # {} =>
    /\ realtime => ByLoop
    /\ ~realtime => (~ByLoop /\ SetPosIssued)

\* outside real-time mode set_pos sends a batch while the loop, started and
\* past its activation test, is about to test the mode
C17_Witness ==
  /\ ~realtime /\ SetPosIssued /\ BatchCalls = {2}
  /\ is_activated /\ th_pc = "check_rt"

\* C18: set_pos returns True only in real-time mode, with wait true, out
\* of the goal-wait helper; outside real-time mode a set_pos call that sent
\* its motor commands returns False at once, also with wait=True, without
\* entering the helper.
C18_TrueOnlyFromWait ==
  /\ (ret.op \in SetPosOps /\ ret.out = "returned" /\ ret.success) =>
       (realtime /\ ret.wait /\ ret.helper)
  /\ (SetPosIssued /\ ~realtime) =>
       /\ ret.out = "returned"
       /\ ~ret.success
       /\ ~ret.helper
       /\ fg_pc = "idle"
       /\ MotorCalls = {1}
       /\ BatchCalls = {2}

\* set_pos(x, wait=True) outside real-time mode, activated: commands sent,
\* False returned
C18_Witness ==
  /\ ret.op = "set_pos" /\ SetPosIssued /\ ~realtime /\ ret.wait /\ is_activated
  /\ ret.out = "returned" /\ ~ret.success /\ MotorCalls = {1}

====
